---- MODULE Spec2Model ----
(***************************************************************************)
(* check_postgresql (src/src/main.rs): a nagios plugin that parses the     *)
(* warning/critical threshold lists, connects, runs one query, compares    *)
(* the first result row with the thresholds and leaves through exit_nagios *)
(* (one printed line and an exit code) or through a panic.                 *)
(*                                                                         *)
(* Text is a sequence of fragments (strings) whose concatenation is the    *)
(* printed text; a threshold argument is a sequence of characters.         *)
(* Sequences are 1-based here where the source indexes from 0.             *)
(***************************************************************************)
EXTENDS Integers, Sequences, FiniteSets, TLC

\* ---------------------------------------------------------------- bounds
\* Largest number of rows in a result set, largest number of columns in a row.
MaxRows == 2
MaxWidth == 2

\* ---------------------------------------------------------------- inputs
None == [some |-> FALSE]
Some(s) == [some |-> TRUE, v |-> s]

\* Values of --warn / --critical: each a sequence of characters.
ThresholdStrings ==
    { <<"1">>, <<"2">>, <<"-", "1">>, <<"1", ",", "2">>, <<"2", ",", "1">>,
      <<"1", ",">>, <<"x">> }
ThresholdArgs == {None} \cup {Some(s) : s \in ThresholdStrings}

\* A column of a row as the driver delivers it: the declared type and the raw
\* big-endian bytes (non-NULL values only).
Cells ==
    { [ty |-> "Int4", raw |-> <<0, 0, 0, 0>>],
      [ty |-> "Char", raw |-> <<1>>],
      [ty |-> "Int2", raw |-> <<0, 2>>],
      [ty |-> "Int8", raw |-> <<255, 255, 255, 255, 255, 255, 255, 255>>],
      [ty |-> "Oid",  raw |-> <<0, 0, 0, 3>>],
      [ty |-> "Text", raw |-> <<49>>] }

SeqsUpTo(S, n) == UNION {[1..k -> S] : k \in 0..n}
Row == SeqsUpTo(Cells, MaxWidth)
\* Rows after the first: no columns, a value that reaches every threshold used
\* here (in one and in two columns), an unsupported type.
LaterRows ==
    { <<>>,
      <<[ty |-> "Int2", raw |-> <<0, 2>>]>>,
      <<[ty |-> "Int2", raw |-> <<0, 2>>], [ty |-> "Int2", raw |-> <<0, 2>>]>>,
      <<[ty |-> "Text", raw |-> <<49>>]>> }
ResultSets ==
    {<<>>} \cup
    IF MaxRows = 0 THEN {}
    ELSE {<<first>> \o tail : first \in Row, tail \in SeqsUpTo(LaterRows, MaxRows - 1)}

\* Error texts of the driver (err.description()).
ConnectErrors == {"connection refused"}
QueryErrors == {"syntax error"}

\* ---------------------------------------------------------------- state
VARIABLES
    pc,            \* position in main, or "exited" / "panicked" / "returned"
    warn_string,   \* matches.value_of("warn")
    crit_string,   \* matches.value_of("crit")
    vec_warn,
    vec_crit,
    rows,          \* the query's result set
    row_idx,       \* index of the row the for loop is at (0: loop not entered)
    status,        \* the loop's local `status`
    stdout,        \* the lines printed, in order
    return_value,  \* the process exit code (-1 while running)
    reported,      \* the Status values handed to exit_nagios, in order
    connects,      \* calls of Connection::connect
    queries,       \* calls of conn.query
    query_ok,      \* conn.query returned Ok(rows)
    coerced,       \* calls of row.get::<usize,Int64>
    touched,       \* indexes of the rows whose width was checked
    wrong_type     \* a column of a type Int64 does not accept was read

vars == <<pc, warn_string, crit_string, vec_warn, vec_crit, rows, row_idx, status,
          stdout, return_value, reported, connects, queries, query_ok, coerced,
          touched, wrong_type>>

\* ---------------------------------------------------------------- i64::from_str
DigitChars == <<"0", "1", "2", "3", "4", "5", "6", "7", "8", "9">>
IsDigit(c) == \E k \in 1..10 : DigitChars[k] = c
DigitVal(c) == (CHOOSE k \in 1..10 : DigitChars[k] = c) - 1

RECURSIVE ParseDigits(_, _)
ParseDigits(ds, acc) ==
    IF ds = <<>> THEN [ok |-> TRUE, val |-> acc]
    ELSE IF ~IsDigit(Head(ds)) THEN [ok |-> FALSE, val |-> 0]
    ELSE ParseDigits(Tail(ds), acc * 10 + DigitVal(Head(ds)))

\* i64::from_str: an optional sign, then at least one digit, nothing else.
\* (Tokens here are far too short to overflow an i64.)
FromStr(tok) ==
    IF tok = <<>> THEN [ok |-> FALSE, val |-> 0]
    ELSE IF Head(tok) \in {"+", "-"}
    THEN IF Tail(tok) = <<>> THEN [ok |-> FALSE, val |-> 0]
         ELSE LET r == ParseDigits(Tail(tok), 0)
              IN  IF Head(tok) = "-" THEN [ok |-> r.ok, val |-> 0 - r.val] ELSE r
    ELSE ParseDigits(tok, 0)

\* str.split(','): the pieces between commas, empty pieces included.
RECURSIVE SplitFrom(_, _, _)
SplitFrom(s, cur, acc) ==
    IF s = <<>> THEN Append(acc, cur)
    ELSE IF Head(s) = "," THEN SplitFrom(Tail(s), <<>>, Append(acc, cur))
    ELSE SplitFrom(Tail(s), Append(cur, Head(s)), acc)
Split(s) == SplitFrom(s, <<>>, <<>>)

\* The loop `for i in split(',') { vec.push(match from_str(i) {Ok, Err => panic!}) }`.
RECURSIVE PushAll(_, _)
PushAll(tokens, vec) ==
    IF tokens = <<>> THEN [panic |-> FALSE, vec |-> vec]
    ELSE LET r == FromStr(Head(tokens))
         IN  IF r.ok THEN PushAll(Tail(tokens), Append(vec, r.val))
             ELSE [panic |-> TRUE, vec |-> vec]

\* The whole if-let: the argument's integers, or the default.
ParseThreshold(arg, default) ==
    IF arg.some THEN PushAll(Split(arg.v), <<>>)
    ELSE [panic |-> FALSE, vec |-> <<default>>]

\* ---------------------------------------------------------------- Int64
Accepts(ty) == ty \in {"Char", "Int2", "Int4", "Int8", "Oid"}

RECURSIVE BigEndian(_, _)
BigEndian(bytes, acc) ==
    IF bytes = <<>> THEN acc ELSE BigEndian(Tail(bytes), acc * 256 + Head(bytes))

\* A signed big-endian integer of the bytes' width (two's complement),
\* widened to i64.
ReadSigned(bytes) ==
    IF Head(bytes) >= 128
    THEN 0 - (BigEndian([k \in 1..Len(bytes) |-> 255 - bytes[k]], 0) + 1)
    ELSE BigEndian(bytes, 0)
ReadUnsigned(bytes) == BigEndian(bytes, 0)

FromSql(ty, raw) ==
    CASE ty = "Char" -> ReadSigned(SubSeq(raw, 1, 1))
      [] ty = "Int2" -> ReadSigned(SubSeq(raw, 1, 2))
      [] ty = "Int4" -> ReadSigned(SubSeq(raw, 1, 4))
      [] ty = "Int8" -> ReadSigned(SubSeq(raw, 1, 8))
      [] ty = "Oid"  -> ReadUnsigned(SubSeq(raw, 1, 4))
      [] OTHER       -> ReadSigned(SubSeq(raw, 1, 8))

\* row.get::<usize,Int64>(i).to_i64(): panics when the index is outside the row
\* or the column's type is not accepted; i is 1-based.
RowGet(row, i) ==
    IF i > Len(row) THEN [panic |-> TRUE, wrong |-> FALSE, val |-> 0]
    ELSE IF ~Accepts(row[i].ty) THEN [panic |-> TRUE, wrong |-> TRUE, val |-> 0]
    ELSE [panic |-> FALSE, wrong |-> FALSE, val |-> FromSql(row[i].ty, row[i].raw)]

\* ---------------------------------------------------------------- Status
StatusType == {"OK", "WARNING", "CRITICAL", "UNKNOWN"}
MkStatus(t, description) == [t |-> t, description |-> description]

\* Status::fmt
Fmt(st) ==
    CASE st.t = "OK"       -> <<"OK", "|">> \o st.description
      [] st.t = "WARNING"  -> <<"WARNING", "|">> \o st.description
      [] st.t = "CRITICAL" -> <<"CRITICAL", "|">> \o st.description
      [] st.t = "UNKNOWN"  -> <<"UNKNOWN", "|">> \o st.description

\* A variant of the match with the codes of WARNING and CRITICAL exchanged.
ReturnValueSwapped(t) ==
    CASE t = "OK"       -> 0
      [] t = "WARNING"  -> 2
      [] t = "CRITICAL" -> 1
      [] t = "UNKNOWN"  -> 3

\* exit_nagios' match
ReturnValue(t) ==
    CASE t = "OK"       -> 0
      [] t = "WARNING"  -> 1
      [] t = "CRITICAL" -> 2
      [] t = "UNKNOWN"  -> 3

\* exit_nagios: print the line, leave with the code.
ExitNagios(st) ==
    /\ stdout' = Append(stdout, Fmt(st))
    /\ return_value' = ReturnValue(st.t)
    /\ reported' = Append(reported, st)
    /\ pc' = "exited"

\* panic!: nothing is printed on stdout, the process leaves with code 101.
Panic ==
    /\ pc' = "panicked"
    /\ return_value' = 101
    /\ UNCHANGED <<stdout, reported>>

\* ---------------------------------------------------------------- the row loop
\* A variant of the comparison that is strict.
ReachesStrict(threshold, value) == threshold < value

\* The comparison of one column with its threshold.
Reaches(threshold, value) == threshold <= value

\* `for i in 0..vec.len() { if vec[i] <= row.get(i) { status = ..; break } }`
\* from index i on: whether a column matched, whether a get panicked, the gets made.
RECURSIVE Scan(_, _, _)
Scan(vec, row, i) ==
    IF i > Len(vec) THEN [hit |-> FALSE, panic |-> FALSE, wrong |-> FALSE, gets |-> 0]
    ELSE LET g == RowGet(row, i)
         IN  IF g.panic
             THEN [hit |-> FALSE, panic |-> TRUE, wrong |-> g.wrong, gets |-> 1]
             ELSE IF Reaches(vec[i], g.val)
             THEN [hit |-> TRUE, panic |-> FALSE, wrong |-> FALSE, gets |-> 1]
             ELSE LET r == Scan(vec, row, i + 1) IN [r EXCEPT !.gets = @ + 1]

\* i64::to_string
RECURSIVE NatToString(_)
NatToString(n) ==
    IF n < 10 THEN <<DigitChars[n + 1]>>
    ELSE Append(NatToString(n \div 10), DigitChars[(n % 10) + 1])
I64ToString(v) == IF v < 0 THEN <<"-">> \o NatToString(0 - v) ELSE NatToString(v)

\* The loop `for j in 0..row.len()` that builds the description, from column j on.
RECURSIVE Describe(_, _, _)
Describe(row, j, description) ==
    IF j > Len(row) THEN [panic |-> FALSE, wrong |-> FALSE, text |-> description, gets |-> 0]
    ELSE LET g == RowGet(row, j)
         IN  IF g.panic
             THEN [panic |-> TRUE, wrong |-> g.wrong, text |-> description, gets |-> 1]
             ELSE LET d1 == description \o I64ToString(g.val)
                      d2 == IF j # Len(row) THEN Append(d1, ",") ELSE d1
                      d3 == Append(d2, ")")
                      r  == Describe(row, j + 1, d3)
                  IN  [r EXCEPT !.gets = @ + 1]

\* Variants of the checks below: a one-sided length check, an empty-set check
\* that never fires, a one-sided width check, an iteration from the last row.
LengthsDifferOneWay(vw, vc) == Len(vw) > Len(vc)
IsEmptyNever(rs) == FALSE
WidthNarrower(row, vw) == Len(row) < Len(vw)
IterLast(rs) == Len(rs)

\* The checks of main.
LengthsDiffer(vw, vc) == Len(vw) # Len(vc)
IsEmpty(rs) == Len(rs) = 0
WidthDiffers(row, vw) == Len(row) # Len(vw)
\* rows.iter(): the index of the first row it yields, and whether it yields none.
IterFirst(rs) == 1
IterDone(rs) == Len(rs) < IterFirst(rs)

\* ---------------------------------------------------------------- main
Init ==
    /\ pc = "parse_warn"
    /\ warn_string \in ThresholdArgs
    /\ crit_string \in ThresholdArgs
    /\ vec_warn = <<>>
    /\ vec_crit = <<>>
    /\ rows = <<>>
    /\ row_idx = 0
    /\ status = "OK"
    /\ stdout = <<>>
    /\ return_value = -1
    /\ reported = <<>>
    /\ connects = 0
    /\ queries = 0
    /\ query_ok = FALSE
    /\ coerced = 0
    /\ touched = {}
    /\ wrong_type = FALSE

\* lines 137-141
ParseWarn ==
    /\ pc = "parse_warn"
    /\ LET r == ParseThreshold(warn_string, 1)
       IN  /\ vec_warn' = r.vec
           /\ IF r.panic THEN Panic
              ELSE pc' = "parse_crit" /\ UNCHANGED <<stdout, return_value, reported>>
    /\ UNCHANGED <<warn_string, crit_string, vec_crit, rows, row_idx, status,
                   connects, queries, query_ok, coerced, touched, wrong_type>>

\* lines 143-147
ParseCrit ==
    /\ pc = "parse_crit"
    /\ LET r == ParseThreshold(crit_string, 2)
       IN  /\ vec_crit' = r.vec
           /\ IF r.panic THEN Panic
              ELSE pc' = "check_lengths" /\ UNCHANGED <<stdout, return_value, reported>>
    /\ UNCHANGED <<warn_string, crit_string, vec_warn, rows, row_idx, status,
                   connects, queries, query_ok, coerced, touched, wrong_type>>

\* line 150
CheckLengths ==
    /\ pc = "check_lengths"
    /\ IF LengthsDiffer(vec_warn, vec_crit)
       THEN ExitNagios(MkStatus("UNKNOWN", <<"Size of integer arrays need to match">>))
       ELSE pc' = "connect" /\ UNCHANGED <<stdout, return_value, reported>>
    /\ UNCHANGED <<warn_string, crit_string, vec_warn, vec_crit, rows, row_idx, status,
                   connects, queries, query_ok, coerced, touched, wrong_type>>

\* lines 166-173
Connect ==
    /\ pc = "connect"
    /\ connects' = connects + 1
    /\ \/ pc' = "query" /\ UNCHANGED <<stdout, return_value, reported>>
       \/ \E err \in ConnectErrors : ExitNagios(MkStatus("UNKNOWN", <<err>>))
    /\ UNCHANGED <<warn_string, crit_string, vec_warn, vec_crit, rows, row_idx, status,
                   queries, query_ok, coerced, touched, wrong_type>>

\* lines 174-180
Query ==
    /\ pc = "query"
    /\ queries' = queries + 1
    /\ \/ /\ \E rs \in ResultSets : rows' = rs
          /\ query_ok' = TRUE
          /\ pc' = "check_empty"
          /\ UNCHANGED <<stdout, return_value, reported>>
       \/ /\ \E err \in QueryErrors : ExitNagios(MkStatus("UNKNOWN", <<err>>))
          /\ UNCHANGED <<rows, query_ok>>
    /\ UNCHANGED <<warn_string, crit_string, vec_warn, vec_crit, row_idx, status,
                   connects, coerced, touched, wrong_type>>

\* lines 183-185
CheckEmpty ==
    /\ pc = "check_empty"
    /\ IF IsEmpty(rows)
       THEN ExitNagios(MkStatus("UNKNOWN", <<"Query did return empty row set">>))
       ELSE pc' = "for_row" /\ UNCHANGED <<stdout, return_value, reported>>
    /\ UNCHANGED <<warn_string, crit_string, vec_warn, vec_crit, rows, row_idx, status,
                   connects, queries, query_ok, coerced, touched, wrong_type>>

\* lines 186-190: the loop takes its row (or ends, and main returns) and checks
\* the row's width.
ForRow ==
    /\ pc = "for_row"
    /\ IF IterDone(rows)
       THEN /\ pc' = "returned"
            /\ return_value' = 0
            /\ UNCHANGED <<stdout, reported, row_idx, touched, status>>
       ELSE /\ row_idx' = IterFirst(rows)
            /\ touched' = touched \cup {row_idx'}
            /\ IF WidthDiffers(rows[row_idx'], vec_warn)
               THEN /\ ExitNagios(MkStatus("UNKNOWN",
                          <<"Size of result set and integer array need to match">>))
                    /\ UNCHANGED status
               ELSE /\ status' = "OK"
                    /\ pc' = "scan_warn"
                    /\ UNCHANGED <<stdout, return_value, reported>>
    /\ UNCHANGED <<warn_string, crit_string, vec_warn, vec_crit, rows,
                   connects, queries, query_ok, coerced, wrong_type>>

\* lines 191-193
ScanWarn ==
    /\ pc = "scan_warn"
    /\ LET r == Scan(vec_warn, rows[row_idx], 1)
       IN  /\ coerced' = coerced + r.gets
           /\ wrong_type' = (wrong_type \/ r.wrong)
           /\ IF r.panic THEN Panic /\ UNCHANGED status
              ELSE /\ status' = IF r.hit THEN "WARNING" ELSE status
                   /\ pc' = "scan_crit"
                   /\ UNCHANGED <<stdout, return_value, reported>>
    /\ UNCHANGED <<warn_string, crit_string, vec_warn, vec_crit, rows, row_idx,
                   connects, queries, query_ok, touched>>

\* lines 194-196
ScanCrit ==
    /\ pc = "scan_crit"
    /\ LET r == Scan(vec_crit, rows[row_idx], 1)
       IN  /\ coerced' = coerced + r.gets
           /\ wrong_type' = (wrong_type \/ r.wrong)
           /\ IF r.panic THEN Panic /\ UNCHANGED status
              ELSE /\ status' = IF r.hit THEN "CRITICAL" ELSE status
                   /\ pc' = "describe"
                   /\ UNCHANGED <<stdout, return_value, reported>>
    /\ UNCHANGED <<warn_string, crit_string, vec_warn, vec_crit, rows, row_idx,
                   connects, queries, query_ok, touched>>

\* lines 198-207
Report ==
    /\ pc = "describe"
    /\ LET r == Describe(rows[row_idx], 1, <<"Result:(">>)
       IN  /\ coerced' = coerced + r.gets
           /\ wrong_type' = (wrong_type \/ r.wrong)
           /\ IF r.panic THEN Panic ELSE ExitNagios(MkStatus(status, r.text))
    /\ UNCHANGED <<warn_string, crit_string, vec_warn, vec_crit, rows, row_idx, status,
                   connects, queries, query_ok, touched>>

Next ==
    \/ ParseWarn
    \/ ParseCrit
    \/ CheckLengths
    \/ Connect
    \/ Query
    \/ CheckEmpty
    \/ ForRow
    \/ ScanWarn
    \/ ScanCrit
    \/ Report

Spec == Init /\ [][Next]_vars

\* ================================================================ properties
Terminated == pc \in {"exited", "panicked", "returned"}

\* The canonical integers of a row whose columns are all of accepted types.
Values(row) == [i \in 1..Len(row) |-> FromSql(row[i].ty, row[i].raw)]
AllAccepted(row) == \A i \in 1..Len(row) : Accepts(row[i].ty)

\* The run reported on its first row: the thresholds have one length, the first
\* row has that width, and exit_nagios was reached.
Evaluated ==
    /\ pc = "exited"
    /\ query_ok /\ rows # <<>>
    /\ Len(rows[1]) = Len(vec_warn)

\* The severity name printed and the description printed after "|".
PrintedSeverity == stdout[1][1]
PrintedDescription == SubSeq(stdout[1], 3, Len(stdout[1]))

WarnReached == \E i \in 1..Len(vec_warn) : vec_warn[i] <= Values(rows[1])[i]
CritReached == \E i \in 1..Len(vec_crit) : vec_crit[i] <= Values(rows[1])[i]

\* The one report of an UNKNOWN exit with the given message.
UnknownReport(msg) ==
    /\ pc = "exited"
    /\ stdout = << <<"UNKNOWN", "|", msg>> >>
    /\ return_value = 3

\* ---------------------------------------------------------------- C1
\* C1 (as stated): for a first row of the thresholds' width, the severity is OK
\* iff no column reaches its warning threshold, WARNING iff some column reaches
\* warning and none reaches critical, CRITICAL iff some column reaches critical.
C1_SeverityAsStated ==
    Evaluated =>
        /\ (PrintedSeverity = "OK") <=> ~WarnReached
        /\ (PrintedSeverity = "WARNING") <=> (WarnReached /\ ~CritReached)
        /\ (PrintedSeverity = "CRITICAL") <=> CritReached

\* C1 (amended): the severity is OK iff no column reaches its warning threshold
\* and no column reaches its critical threshold; WARNING iff some column reaches
\* warning and none reaches critical; CRITICAL iff some column reaches critical.
\* The comparison is inclusive.
C1_Severity ==
    Evaluated =>
        /\ (PrintedSeverity = "OK") <=> (~WarnReached /\ ~CritReached)
        /\ (PrintedSeverity = "WARNING") <=> (WarnReached /\ ~CritReached)
        /\ (PrintedSeverity = "CRITICAL") <=> CritReached

\* A critical threshold below the warning threshold, met with equality, while
\* no warning threshold is reached.
C1_Witness ==
    /\ Evaluated
    /\ PrintedSeverity = "CRITICAL"
    /\ ~WarnReached
    /\ \E i \in 1..Len(vec_crit) :
          vec_crit[i] = Values(rows[1])[i] /\ vec_crit[i] < vec_warn[i]

\* ---------------------------------------------------------------- C2
RECURSIVE CommaSeparated(_)
CommaSeparated(vals) ==
    IF vals = <<>> THEN <<>>
    ELSE IF Len(vals) = 1 THEN I64ToString(vals[1])
    ELSE I64ToString(vals[1]) \o <<",">> \o CommaSeparated(Tail(vals))
TupleText(vals) == <<"Result:(">> \o CommaSeparated(vals) \o <<")">>

\* C2: the description of a threshold-derived report is "Result:(" followed by
\* the row's values separated by single commas and one closing ")".
C2_DescriptionIsTuple ==
    Evaluated => PrintedDescription = TupleText(Values(rows[1]))

\* ---------------------------------------------------------------- C3
SeverityCode == [n \in StatusType |->
    IF n = "OK" THEN 0 ELSE IF n = "WARNING" THEN 1 ELSE IF n = "CRITICAL" THEN 2 ELSE 3]

\* C3: a report of exit_nagios is the one line <SEVERITY_NAME>|<description> of
\* the Status it was given, and the exit code is the code of that same severity.
C3_LineAndCodeAgree ==
    pc = "exited" =>
        /\ Len(stdout) = 1 /\ Len(reported) = 1
        /\ Len(stdout[1]) >= 2
        /\ PrintedSeverity = reported[1].t
        /\ stdout[1][2] = "|"
        /\ PrintedDescription = reported[1].description
        /\ PrintedSeverity \in StatusType
        /\ return_value = SeverityCode[PrintedSeverity]

C3_Witness ==
    /\ pc = "exited"
    /\ PrintedSeverity = "WARNING"
    /\ return_value = 1

\* ---------------------------------------------------------------- C4
\* C4: every run ends with exactly one report line and an exit code in 0..3.
C4_OneReportAndCode ==
    Terminated => (Len(stdout) = 1 /\ return_value \in 0..3)

\* ---------------------------------------------------------------- C5
HasBadToken(arg) ==
    arg.some /\ \E k \in 1..Len(Split(arg.v)) : ~FromStr(Split(arg.v)[k]).ok

\* C5: a threshold string with a token that is no integer ends the run with an
\* UNKNOWN report (exit code 3), and nothing connects before it.
C5_BadTokenIsUnknown ==
    (Terminated /\ (HasBadToken(warn_string) \/ HasBadToken(crit_string))) =>
        /\ pc = "exited"
        /\ Len(stdout) = 1 /\ PrintedSeverity = "UNKNOWN"
        /\ return_value = 3
        /\ connects = 0

\* ---------------------------------------------------------------- C6
ParsedLengthsDiffer ==
    LET w == ParseThreshold(warn_string, 1)
        c == ParseThreshold(crit_string, 2)
    IN  ~w.panic /\ ~c.panic /\ Len(w.vec) # Len(c.vec)

\* C6: when the parsed vectors differ in length the run ends, before anything
\* connects or queries, with UNKNOWN "Size of integer arrays need to match".
C6_LengthGate ==
    ParsedLengthsDiffer =>
        /\ connects = 0 /\ queries = 0
        /\ pc \in {"parse_warn", "parse_crit", "check_lengths", "exited"}
        /\ pc = "exited" => UnknownReport("Size of integer arrays need to match")

C6_Witness ==
    /\ ParsedLengthsDiffer
    /\ Len(vec_warn) < Len(vec_crit)
    /\ UnknownReport("Size of integer arrays need to match")

\* ---------------------------------------------------------------- C7
\* C7: a first row whose width differs from the thresholds' length ends the run
\* with UNKNOWN "Size of result set and integer array need to match"; no column
\* is coerced or compared.
C7_WidthGate ==
    (query_ok /\ rows # <<>> /\ Len(rows[1]) # Len(vec_warn)) =>
        /\ Len(vec_warn) = Len(vec_crit)
        /\ coerced = 0
        /\ pc \in {"check_empty", "for_row", "exited"}
        /\ pc = "exited" =>
              UnknownReport("Size of result set and integer array need to match")

C7_Witness ==
    /\ query_ok /\ rows # <<>>
    /\ Len(rows[1]) > Len(vec_warn)
    /\ UnknownReport("Size of result set and integer array need to match")

\* ---------------------------------------------------------------- C8
\* C8: a result set of zero rows ends the run with UNKNOWN "Query did return
\* empty row set" (exit code 3), whatever the thresholds.
C8_EmptyRowSet ==
    (query_ok /\ rows = <<>>) =>
        /\ pc \in {"check_empty", "exited"}
        /\ pc = "exited" => UnknownReport("Query did return empty row set")

C8_Witness ==
    /\ query_ok /\ rows = <<>>
    /\ Len(vec_warn) = 2
    /\ UnknownReport("Query did return empty row set")

\* ---------------------------------------------------------------- C9
\* C9: a run panics if and only if a column of a type outside "char", smallint,
\* integer, bigint, oid was read.
C9_PanicIffWrongType ==
    Terminated => ((pc = "panicked") <=> wrong_type)

\* ---------------------------------------------------------------- C10
\* What the loop body makes of one row: the way the run ends, what is printed,
\* the exit code and the number of columns read.
RowOutcome(row, vw, vc) ==
    LET panicked == [pc |-> "panicked", stdout |-> <<>>, return_value |-> 101]
        exited(st) == [pc |-> "exited", stdout |-> <<Fmt(st)>>,
                       return_value |-> ReturnValue(st.t)]
        w == Scan(vw, row, 1)
        c == Scan(vc, row, 1)
        d == Describe(row, 1, <<"Result:(">>)
        t == IF c.hit THEN "CRITICAL" ELSE IF w.hit THEN "WARNING" ELSE "OK"
    IN  IF Len(row) # Len(vw)
        THEN exited(MkStatus("UNKNOWN",
                 <<"Size of result set and integer array need to match">>))
        ELSE IF w.panic \/ c.panic \/ d.panic THEN panicked
        ELSE exited(MkStatus(t, d.text))

\* C10: with two or more rows, only the first row is width-checked and read,
\* and the report and exit code are those of the first row and the thresholds.
C10_FirstRowOnly ==
    (Terminated /\ query_ok /\ Len(rows) >= 2) =>
        /\ touched = {1}
        /\ row_idx = 1
        /\ [pc |-> pc, stdout |-> stdout, return_value |-> return_value]
              = RowOutcome(rows[1], vec_warn, vec_crit)

\* The first row is below every threshold and the second would be critical.
C10_Witness ==
    /\ pc = "exited" /\ query_ok /\ Len(rows) >= 2
    /\ PrintedSeverity = "OK"
    /\ Len(rows[2]) = Len(vec_crit)
    /\ AllAccepted(rows[2])
    /\ \E i \in 1..Len(vec_crit) : vec_crit[i] <= Values(rows[2])[i]

====
